---- MODULE Spec2Model ----
(***************************************************************************)
(* Model of the note route                                                 *)
(*   app/routes/users+/$username_+/notes.$noteId.tsx                       *)
(* its loader (view path), its action (delete path) and the delete         *)
(* permission query both of them issue, run as concurrent requests         *)
(* against one store (notes, users, roles, permissions).                   *)
(*                                                                         *)
(* A request is split at the awaits that reach the store, so that requests *)
(* interleave exactly where the code yields:                               *)
(*   loader: [getUserId, note.findUnique, invariantResponse]               *)
(*           [permission.findFirst, json]                                  *)
(*   action: [requireUserId, formData, parse, early returns]               *)
(*           [note.findFirst, invariantResponse]                           *)
(*           [permission.findFirst, 403]                                   *)
(*           [note.delete, redirect]                                       *)
(* Optional values (null / undefined) are sequences of length 0 or 1.      *)
(* timeAgo (a clock reading) and the note's title, content and images are  *)
(* carried by no decision of the handlers and are left out of the records. *)
(***************************************************************************)
EXTENDS Integers, Sequences, FiniteSets, TLC

\* ------------------------------------------------------------------ bounds
NumUsers == 2
NumNotes == 2
NumRoles == 2
MaxReq == 2

\* ------------------------------------------------------------- data model
UserIds == {<<"user", i>> : i \in 1..NumUsers}
NoteIds == {<<"note", i>> : i \in 1..NumNotes}
\* ids a request may name: the stored ones and one that no note ever has
RouteNoteIds == {<<"note", i>> : i \in 1..(NumNotes + 1)}
Roles == {<<"role", i>> : i \in 1..NumRoles}
Slots == 1..MaxReq

Null == <<>>
Some(x) == <<x>>

\* User.username, distinct from User.id
Username(u) == <<"username", u[2]>>

\* Permission rows (entity, action, access)
Permission(e, a, x) == [entity |-> e, action |-> a, access |-> x]
PermissionRows ==
    { Permission("note", "delete", "own"),
      Permission("note", "delete", "any"),
      Permission("note", "read", "any"),
      Permission("user", "delete", "any") }

VARIABLES notes, userRoles, rolePermissions, req
vars == <<notes, userRoles, rolePermissions, req>>

\* ------------------------------------------------------ external helpers
\* ~/utils/auth.server.ts: the session's user id, or null
getUserId(session) == session

\* ~/utils/auth.server.ts: the session's user id; without one it throws a
\* redirect to the login page
requireUserId(session) ==
    IF session = Null
    THEN [thrown |-> Some([status |-> 302, location |-> <<"login">>]), userId |-> Null]
    ELSE [thrown |-> Null, userId |-> session]

\* ~/utils/misc.tsx: throws a Response with the given status when the
\* condition is falsy
invariantResponse(condition, message, status) ==
    IF condition THEN Null ELSE Some([status |-> status, body |-> message])

\* @remix-run/node json() and redirect()
json(body, status) == [status |-> status, body |-> body]
redirect(location) == [status |-> 302, location |-> location]

\* ------------------------------------------------------------ form parsing
\* The submitted form: conform's intent (the __intent__ field, "submit" when
\* the form is submitted for real), and the two schema fields, each present
\* or absent.
FormData ==
    [ conformIntent : {"submit", "validate"},
      intent : {Some("delete-note"), Some("other")},
      noteId : {Null} \cup {Some(n) : n \in RouteNoteIds} ]

\* Variant of DeleteFormSchema: intent is any string instead of the literal
DeleteFormSchema_AnyIntent(formData) ==
    IF formData.noteId # Null THEN {} ELSE {"noteId"}

\* z.object({ intent: z.literal('delete-note'), noteId: z.string() }):
\* the set of fields that fail
DeleteFormSchema(formData) ==
    (IF formData.intent = Some("delete-note") THEN {} ELSE {"intent"})
    \cup (IF formData.noteId # Null THEN {} ELSE {"noteId"})

\* parse(formData, { schema: DeleteFormSchema }): the submission
parse(formData) ==
    LET error == DeleteFormSchema(formData)
    IN  [ intent |-> formData.conformIntent,
          payload |-> formData,
          error |-> error,
          value |-> IF error = {}
                    THEN Some([intent |-> formData.intent[1],
                               noteId |-> formData.noteId[1]])
                    ELSE Null ]

\* ------------------------------------------------------------ store reads
\* loader, lines 31-46: prisma.note.findUnique({ where: { id }, select:
\* { id, ownerId, ... } })
NoteFindUnique(id) ==
    IF id \in DOMAIN notes
    THEN Some([id |-> id, ownerId |-> notes[id].ownerId])
    ELSE Null

\* Variant of NoteFindFirst: the where clause is lost, the first note of the
\* store is returned whatever the id
NoteFindFirst_IgnoresId(id) ==
    IF DOMAIN notes # {}
    THEN LET first == CHOOSE n \in DOMAIN notes : TRUE
         IN  Some([id |-> first,
                   ownerId |-> notes[first].ownerId,
                   owner |-> [username |-> Username(notes[first].ownerId)]])
    ELSE Null

\* action, lines 96-99: prisma.note.findFirst({ where: { id }, select:
\* { id, ownerId, owner: { username } } })
NoteFindFirst(id) ==
    IF id \in DOMAIN notes
    THEN Some([id |-> id,
               ownerId |-> notes[id].ownerId,
               owner |-> [username |-> Username(notes[id].ownerId)]])
    ELSE Null

\* action, line 125: prisma.note.delete({ where: { id } }) removes the row;
\* when no row has the id it rejects (record to delete does not exist), and
\* the rejection, caught by no handler of the route, ends the request with
\* a 500
NoteDelete(id) ==
    IF id \in DOMAIN notes
    THEN [ notes |-> [n \in DOMAIN notes \ {id} |-> notes[n]], thrown |-> Null ]
    ELSE [ notes |-> notes,
           thrown |-> Some([status |-> 500, body |-> "Unexpected Server Error"]) ]

\* Variant of PermissionFindFirst: the action filter is lost
PermissionFindFirst_AnyAction(userId, entity, action, accesses) ==
    LET rows == { p \in PermissionRows :
                    /\ \E role \in Roles :
                          /\ p \in rolePermissions[role]
                          /\ \E u \in UserIds : role \in userRoles[u] /\ u = userId
                    /\ p.entity = entity
                    /\ p.access \in accesses }
    IN  IF rows = {} THEN Null ELSE Some(CHOOSE p \in rows : TRUE)

\* prisma.permission.findFirst({ where: { roles: { some: { users: { some:
\* { id: userId } } } }, entity, action, access: { in: accesses } } })
PermissionFindFirst(userId, entity, action, accesses) ==
    LET rows == { p \in PermissionRows :
                    /\ \E role \in Roles :
                          /\ p \in rolePermissions[role]
                          /\ \E u \in UserIds : role \in userRoles[u] /\ u = userId
                    /\ p.entity = entity
                    /\ p.action = action
                    /\ p.access \in accesses }
    IN  IF rows = {} THEN Null ELSE Some(CHOOSE p \in rows : TRUE)

\* Variant of LoaderPermission: the query is issued without the userId
\* guard; with an undefined id the user filter matches every user
LoaderPermission_NoUserGuard(userId, note) ==
    IF userId # Null
    THEN [ queried |-> TRUE,
           permission |->
              PermissionFindFirst(userId[1], "note", "delete",
                  IF note.ownerId = userId[1] THEN {"any", "own"} ELSE {"any"}) ]
    ELSE LET rows == { p \in PermissionRows :
                         /\ \E role \in Roles :
                               /\ p \in rolePermissions[role]
                               /\ \E u \in UserIds : role \in userRoles[u]
                         /\ p = Permission("note", "delete", "any") }
         IN  [ queried |-> TRUE,
               permission |-> IF rows = {} THEN Null
                              ELSE Some(CHOOSE p \in rows : TRUE) ]

\* loader, lines 55-65: the query is issued only for a signed-in user
LoaderPermission(userId, note) ==
    IF userId # Null
    THEN [ queried |-> TRUE,
           permission |->
              PermissionFindFirst(userId[1], "note", "delete",
                  IF note.ownerId = userId[1] THEN {"any", "own"} ELSE {"any"}) ]
    ELSE [ queried |-> FALSE, permission |-> Null ]

\* Variant of ActionPermission: the own scope is accepted for every note
ActionPermission_OwnForAll(userId, note) ==
    PermissionFindFirst(userId, "note", "delete", {"any", "own"})

\* Variant of ActionPermission: the own scope is never accepted
ActionPermission_AnyOnly(userId, note) ==
    PermissionFindFirst(userId, "note", "delete", {"any"})

\* action, lines 103-111
ActionPermission(userId, note) ==
    PermissionFindFirst(userId, "note", "delete",
        IF note.ownerId = userId THEN {"any", "own"} ELSE {"any"})

\* Variant of Unauthorized: the message names the scope that was required
Unauthorized_NamesScope(userId, note) ==
    json([error |-> "Unauthorized",
          message |-> <<"Unauthorized: requires permission delete:note",
                        IF note.ownerId = userId THEN "own" ELSE "any">>], 403)

\* action, lines 114-120: the thrown 403 response
Unauthorized(userId, note) ==
    json([error |-> "Unauthorized",
          message |-> "Unauthorized: requires permission delete:note"], 403)

\* ErrorBoundary, lines 242-253: what the user sees for a thrown response
ErrorBoundary(status, params) ==
    CASE status = 403 -> <<"You are not allowed to do that">>
      [] status = 404 -> <<"No note with the id", params.noteId, "exists">>
      [] OTHER -> <<"unexpected error">>

\* ---------------------------------------------------------------- requests
\* A request slot: the handler's position, its inputs, its locals, the steps
\* it has performed so far and its response once it has ended. noteId is
\* params.noteId in the loader and submission.value.noteId in the action;
\* form is the request body once the action has read it.
IdleRequest ==
    [ pc |-> "idle", kind |-> "none", session |-> Null, form |-> Null,
      noteId |-> Null, userId |-> Null, note |-> Null, permission |-> Null,
      ops |-> <<>>, response |-> Null ]

\* loader, lines 30-48
LoaderStart(r, session, noteId) ==
    /\ req[r].pc = "idle"
    /\ LET userId == getUserId(session)
           note == NoteFindUnique(noteId)
           thrown == invariantResponse(note # Null, "Not found", 404)
           started == [req[r] EXCEPT !.kind = "loader", !.session = session,
                          !.noteId = Some(noteId), !.userId = userId,
                          !.ops = <<"authenticate", "findNote">>]
       IN  req' = [req EXCEPT ![r] =
                IF thrown # Null
                THEN [started EXCEPT !.pc = "done", !.response = thrown]
                ELSE [started EXCEPT !.pc = "loader:permission", !.note = note]]
    /\ UNCHANGED <<notes, userRoles, rolePermissions>>

\* loader, lines 55-72
LoaderFinish(r) ==
    /\ req[r].pc = "loader:permission"
    /\ LET q == LoaderPermission(req[r].userId, req[r].note[1])
       IN  req' = [req EXCEPT ![r] =
                [@ EXCEPT !.pc = "done",
                          !.permission = q.permission,
                          !.ops = IF q.queried THEN Append(@, "findPermission") ELSE @,
                          !.response = Some(json([note |-> req[r].note[1],
                                                  canDelete |-> q.permission # Null],
                                                 200))]]
    /\ UNCHANGED <<notes, userRoles, rolePermissions>>

\* action, lines 81-94
ActionStart(r, session, formData) ==
    /\ req[r].pc = "idle"
    /\ LET auth == requireUserId(session)
           submission == parse(formData)
           started == [req[r] EXCEPT !.kind = "action", !.session = session,
                          !.form = Some(formData)]
       IN  req' = [req EXCEPT ![r] =
                IF auth.thrown # Null
                THEN [started EXCEPT !.pc = "done", !.form = Null,
                                     !.ops = <<"authenticate">>,
                                     !.response = auth.thrown]
                ELSE IF submission.intent # "submit"
                THEN [started EXCEPT !.pc = "done", !.userId = auth.userId,
                         !.ops = <<"authenticate", "validate">>,
                         !.response = Some(json([status |-> "idle",
                                                 submission |-> submission], 200))]
                ELSE IF submission.value = Null
                THEN [started EXCEPT !.pc = "done", !.userId = auth.userId,
                         !.ops = <<"authenticate", "validate">>,
                         !.response = Some(json([status |-> "error",
                                                 submission |-> submission], 400))]
                ELSE [started EXCEPT !.pc = "action:findNote", !.userId = auth.userId,
                         !.ops = <<"authenticate", "validate">>,
                         !.noteId = Some(submission.value[1].noteId)]]
    /\ UNCHANGED <<notes, userRoles, rolePermissions>>

\* Variant of ActionFindNote: the found note goes straight to the delete
ActionFindNote_SkipsAuthorize(r) ==
    /\ req[r].pc = "action:findNote"
    /\ LET note == NoteFindFirst(req[r].noteId[1])
           thrown == invariantResponse(note # Null, "Not found", 404)
       IN  req' = [req EXCEPT ![r] =
                IF thrown # Null
                THEN [@ EXCEPT !.pc = "done", !.ops = Append(@, "findNote"),
                               !.response = thrown]
                ELSE [@ EXCEPT !.pc = "action:delete",
                               !.ops = Append(@, "findNote"), !.note = note]]
    /\ UNCHANGED <<notes, userRoles, rolePermissions>>

\* action, lines 96-100
ActionFindNote(r) ==
    /\ req[r].pc = "action:findNote"
    /\ LET note == NoteFindFirst(req[r].noteId[1])
           thrown == invariantResponse(note # Null, "Not found", 404)
       IN  req' = [req EXCEPT ![r] =
                IF thrown # Null
                THEN [@ EXCEPT !.pc = "done", !.ops = Append(@, "findNote"),
                               !.response = thrown]
                ELSE [@ EXCEPT !.pc = "action:permission",
                               !.ops = Append(@, "findNote"), !.note = note]]
    /\ UNCHANGED <<notes, userRoles, rolePermissions>>

\* action, lines 103-121
ActionAuthorize(r) ==
    /\ req[r].pc = "action:permission"
    /\ LET permission == ActionPermission(req[r].userId[1], req[r].note[1])
       IN  req' = [req EXCEPT ![r] =
                IF permission = Null
                THEN [@ EXCEPT !.pc = "done", !.ops = Append(@, "findPermission"),
                               !.response = Some(Unauthorized(req[r].userId[1],
                                                              req[r].note[1]))]
                ELSE [@ EXCEPT !.pc = "action:delete",
                               !.ops = Append(@, "findPermission"),
                               !.permission = permission]]
    /\ UNCHANGED <<notes, userRoles, rolePermissions>>

\* action, lines 125-127
ActionDelete(r) ==
    /\ req[r].pc = "action:delete"
    /\ LET deleted == NoteDelete(req[r].note[1].id)
       IN  /\ notes' = deleted.notes
           /\ req' = [req EXCEPT ![r] =
                [@ EXCEPT !.pc = "done", !.ops = Append(@, "deleteNote"),
                          !.response =
                             IF deleted.thrown # Null
                             THEN deleted.thrown
                             ELSE Some(redirect(<<"users",
                                          req[r].note[1].owner.username, "notes">>))]]
    /\ UNCHANGED <<userRoles, rolePermissions>>

\* ------------------------------------------------------------ specification
Sessions == {Null} \cup {Some(u) : u \in UserIds}

Next ==
    \/ \E r \in DOMAIN req, session \in Sessions, noteId \in RouteNoteIds :
          LoaderStart(r, session, noteId)
    \/ \E r \in DOMAIN req : LoaderFinish(r)
    \/ \E r \in DOMAIN req, session \in Sessions, formData \in FormData :
          ActionStart(r, session, formData)
    \/ \E r \in DOMAIN req : ActionFindNote(r)
    \/ \E r \in DOMAIN req : ActionAuthorize(r)
    \/ \E r \in DOMAIN req : ActionDelete(r)

\* The grants of role i when the role table is fixed: the first role grants
\* deleting one's own notes, the second deleting any note, further roles
\* nothing; each also holds a row that no note deletion may rest on.
RoleGrants(role) ==
    CASE role[2] = 1 -> { Permission("note", "delete", "own"),
                          Permission("note", "read", "any") }
      [] role[2] = 2 -> { Permission("note", "delete", "any"),
                          Permission("user", "delete", "any") }
      [] OTHER -> {}

\* Concurrent requests. The store before any request: every note id has a
\* note, owned by some user; the role table is fixed and roles are granted
\* to users in any way, so that a user holds no delete scope, own, any or
\* both.
Init ==
    /\ notes \in [NoteIds -> [ownerId : UserIds]]
    /\ userRoles \in [UserIds -> SUBSET Roles]
    /\ rolePermissions = [role \in Roles |-> RoleGrants(role)]
    /\ req = [r \in Slots |-> IdleRequest]

Spec == Init /\ [][Next]_vars

\* One request, over every permission table: note i is owned by user i
\* (modulo the number of users), roles are granted to users and permission
\* rows to roles in any way.
InitTables ==
    /\ notes = [n \in NoteIds |->
                  [ownerId |-> <<"user", ((n[2] - 1) % NumUsers) + 1>>]]
    /\ userRoles \in [UserIds -> SUBSET Roles]
    /\ rolePermissions \in [Roles -> SUBSET PermissionRows]
    /\ req = [r \in {1} |-> IdleRequest]

SpecTables == InitTables /\ [][Next]_vars

\* ------------------------------------------------------------- properties
Range(seq) == {seq[i] : i \in DOMAIN seq}
IsPrefix(a, b) == Len(a) <= Len(b) /\ \A i \in DOMAIN a : a[i] = b[i]

Done(r) == req[r].pc = "done"
Status(r) == req[r].response[1].status
\* request r takes a step
Steps(r) == req'[r] # req[r]

\* The user holds the permission row through one of the user's roles
Holds(userId, p) == \E role \in userRoles[userId] : p \in rolePermissions[role]

\* The delete rule as the data model states it
MayDelete(userId, ownerId) ==
    \/ Holds(userId, Permission("note", "delete", "any"))
    \/ /\ Holds(userId, Permission("note", "delete", "own"))
       /\ userId = ownerId

\* The form is a real submission that satisfies / fails the delete schema
Submitted(form) == form.conformIntent = "submit"
SchemaFails(form) == form.intent # Some("delete-note") \/ form.noteId = Null

\* C1: for every signed-in user, note and grant of permissions through
\* roles, the permission query of the loader and of the action finds a row
\* if and only if the user holds note:delete:any, or holds note:delete:own
\* and is the note's owner.
C1_PermissionQueryIffDeleteRule ==
    \A r \in DOMAIN req :
        /\ ( /\ req[r].kind = "loader"
             /\ Done(r)
             /\ Status(r) = 200
             /\ req[r].userId # Null )
           => /\ "findPermission" \in Range(req[r].ops)
              /\ (req[r].permission # Null)
                    <=> MayDelete(req[r].userId[1], req[r].note[1].ownerId)
        /\ ( /\ req[r].kind = "action"
             /\ "findPermission" \in Range(req[r].ops) )
           => ((req[r].permission # Null)
                    <=> MayDelete(req[r].userId[1], req[r].note[1].ownerId))

\* the owner of a note, holding only the own scope, has passed the action's
\* query, and the row found is the own row
C1_Witness ==
    \E r \in DOMAIN req :
        /\ req[r].pc = "action:delete"
        /\ req[r].note[1].ownerId = req[r].userId[1]
        /\ ~Holds(req[r].userId[1], Permission("note", "delete", "any"))
        /\ req[r].permission = Some(Permission("note", "delete", "own"))

\* C2: a valid delete submission of a signed-in user who may not delete the
\* existing note ends with 403, and the step that ends it leaves the note
\* store as it was; the request has issued no delete.
C2_ForbiddenDeleteKeepsNote ==
    [][ \A r \in DOMAIN req :
          ( /\ req[r].pc = "action:permission"
            /\ ~MayDelete(req[r].userId[1], req[r].note[1].ownerId)
            /\ Steps(r) )
          => /\ req'[r].pc = "done"
             /\ req'[r].response[1].status = 403
             /\ "deleteNote" \notin Range(req'[r].ops)
             /\ notes' = notes ]_vars

\* a request has ended with 403 and its note is still in the store
C2_Witness ==
    \E r \in DOMAIN req :
        /\ Done(r)
        /\ Status(r) = 403
        /\ req[r].note[1].id \in DOMAIN notes
        /\ notes[req[r].note[1].id].ownerId = req[r].note[1].ownerId

\* C3: a request without a user id never satisfies the delete check: the
\* loader answers canDelete = FALSE for every note and every permission
\* table without issuing the permission query, and the action ends before it
\* reads the form, looks a note up, queries a permission or deletes.
C3_AnonymousNeverCanDelete ==
    \A r \in DOMAIN req :
        (req[r].kind # "none" /\ req[r].session = Null)
        => /\ req[r].userId = Null
           /\ req[r].permission = Null
           /\ "findPermission" \notin Range(req[r].ops)
           /\ "deleteNote" \notin Range(req[r].ops)
           /\ (req[r].kind = "loader" /\ Done(r) /\ Status(r) = 200)
                 => req[r].response[1].body.canDelete = FALSE
           /\ req[r].kind = "action"
                 => /\ Done(r)
                    /\ req[r].ops = <<"authenticate">>
                    /\ req[r].response = Some(redirect(<<"login">>))

\* an anonymous loader has answered for a note that some user may delete
C3_Witness ==
    \E r \in DOMAIN req :
        /\ req[r].kind = "loader"
        /\ req[r].session = Null
        /\ Done(r)
        /\ Status(r) = 200
        /\ \E u \in UserIds : Holds(u, Permission("note", "delete", "any"))

\* C4: a valid delete submission of a user whose permission check has
\* succeeded on an existing note removes exactly that note, leaves every
\* other note unchanged and answers with a redirect to the note listing of
\* the note's owner.
C4_PermittedDeleteRemovesAndRedirects ==
    [][ \A r \in DOMAIN req :
          (req[r].pc = "action:delete" /\ Steps(r))
          => /\ DOMAIN notes' = DOMAIN notes \ {req[r].note[1].id}
             /\ req[r].note[1].id \notin DOMAIN notes'
             /\ \A n \in DOMAIN notes' : notes'[n] = notes[n]
             /\ req'[r].response =
                   Some(redirect(<<"users", Username(req[r].note[1].ownerId),
                                   "notes">>)) ]_vars

\* C5: a request for a note id that no note has ends with 404 on the view
\* path and, for a valid submission and whatever the actor's permissions, on
\* the delete path; the store is unchanged.
C5_MissingNoteIs404 ==
    [][ \A r \in DOMAIN req :
          /\ ( /\ req[r].pc = "idle"
               /\ req'[r].kind = "loader"
               /\ req'[r].noteId[1] \notin DOMAIN notes )
             => /\ req'[r].pc = "done"
                /\ req'[r].response[1].status = 404
                /\ notes' = notes
          /\ ( /\ req[r].pc = "action:findNote"
               /\ req[r].noteId[1] \notin DOMAIN notes
               /\ Steps(r) )
             => /\ req'[r].pc = "done"
                /\ req'[r].response[1].status = 404
                /\ notes' = notes ]_vars

\* the loader has answered 404, and so has the action for a user who holds
\* the any scope
C5_Witness ==
    \E r1, r2 \in DOMAIN req :
        /\ req[r1].kind = "loader" /\ Done(r1) /\ Status(r1) = 404
        /\ req[r2].kind = "action" /\ Done(r2) /\ Status(r2) = 404
        /\ Holds(req[r2].userId[1], Permission("note", "delete", "any"))

\* C6: a real submission that fails DeleteFormSchema ends with status
\* 'error' and HTTP 400 in the step that parsed it, before any note lookup,
\* permission query or delete, with the store unchanged; when noteId is
\* missing the errors name the field noteId.
C6_InvalidSubmissionIs400 ==
    [][ \A r \in DOMAIN req :
          ( /\ req[r].pc = "idle"
            /\ req'[r].kind = "action"
            /\ req'[r].form # Null
            /\ Submitted(req'[r].form[1])
            /\ SchemaFails(req'[r].form[1]) )
          => /\ req'[r].pc = "done"
             /\ req'[r].response[1].status = 400
             /\ req'[r].response[1].body.status = "error"
             /\ req'[r].ops = <<"authenticate", "validate">>
             /\ req'[r].form[1].noteId = Null
                   => "noteId" \in req'[r].response[1].body.submission.error
             /\ notes' = notes ]_vars

\* a submission without noteId has been answered with 400 and the field error
C6_Witness ==
    \E r \in DOMAIN req :
        /\ Done(r)
        /\ Status(r) = 400
        /\ req[r].form[1].noteId = Null
        /\ req[r].form[1].intent = Some("delete-note")
        /\ req[r].response[1].body.submission.error = {"noteId"}

\* C7: the action runs authenticate, validate, fetch the note, authorize,
\* delete in this order; a delete is issued only by a request that has passed
\* validation, found the note and passed the permission check; a request that
\* ends with the idle 200, 400, 404 or 403 has issued no delete, and only a
\* request at its delete step changes the store; an invalid submission ends
\* with 400 whatever the note and the permissions, an absent note with 404
\* whatever the permissions, and 403 is left for a found note.
ActionOrder ==
    <<"authenticate", "validate", "findNote", "findPermission", "deleteNote">>

C7_ActionState(r) ==
    LET q == req[r]
        valid == q.form # Null /\ Submitted(q.form[1]) /\ ~SchemaFails(q.form[1])
    IN  /\ IsPrefix(q.ops, ActionOrder)
        /\ "deleteNote" \in Range(q.ops)
              => /\ valid
                 /\ q.note # Null
                 /\ q.permission # Null
                 /\ MayDelete(q.userId[1], q.note[1].ownerId)
        /\ (Done(r) /\ Status(r) \in {200, 400, 404, 403})
              => "deleteNote" \notin Range(q.ops)
        /\ ( /\ Done(r)
             /\ q.form # Null
             /\ Submitted(q.form[1])
             /\ SchemaFails(q.form[1]) )
              => Status(r) = 400 /\ q.ops = SubSeq(ActionOrder, 1, 2)
        /\ (Done(r) /\ valid /\ q.note = Null)
              => Status(r) = 404 /\ q.ops = SubSeq(ActionOrder, 1, 3)
        /\ (Done(r) /\ Status(r) = 404) => valid /\ q.note = Null
        /\ (Done(r) /\ Status(r) = 403)
              => /\ valid
                 /\ q.note # Null
                 /\ q.ops = SubSeq(ActionOrder, 1, 4)

C7_ValidateFetchAuthorizeDelete ==
    /\ [](\A r \in DOMAIN req : req[r].kind = "action" => C7_ActionState(r))
    /\ [][ notes' # notes
           => \E r \in DOMAIN req :
                 /\ req[r].pc = "action:delete"
                 /\ req[r].ops = SubSeq(ActionOrder, 1, 4)
                 /\ req'[r].ops = ActionOrder ]_vars

\* one request has run the five steps and removed its note; another, by a
\* user who holds no delete scope, has ended with 404 and not with 403
C7_Witness ==
    \E r1, r2 \in DOMAIN req :
        /\ Done(r1) /\ Status(r1) = 302 /\ req[r1].ops = ActionOrder
        /\ req[r1].note[1].id \notin DOMAIN notes
        /\ req[r2].kind = "action" /\ Done(r2) /\ Status(r2) = 404
        /\ \A owner \in UserIds : ~MayDelete(req[r2].userId[1], owner)

\* C8: two valid delete submissions for the same existing note by actors
\* who both hold sufficient delete permission, interleaved in any way, remove
\* the note once, and each ends with the 302 redirect or with 404; no request
\* ends outside 200, 302, 400, 403, 404.
Sufficient(r) ==
    \/ Holds(req[r].userId[1], Permission("note", "delete", "any"))
    \/ /\ Holds(req[r].userId[1], Permission("note", "delete", "own"))
       /\ req[r].note # Null
       /\ req[r].note[1].ownerId = req[r].userId[1]

C8_ConcurrentDeletesRedirectOrNotFound ==
    /\ \A r \in DOMAIN req : Done(r) => Status(r) \in {200, 302, 400, 403, 404}
    /\ \A r1, r2 \in DOMAIN req :
          ( /\ r1 # r2
            /\ req[r1].kind = "action" /\ req[r2].kind = "action"
            /\ Done(r1) /\ Done(r2)
            /\ req[r1].noteId # Null
            /\ req[r1].noteId = req[r2].noteId
            /\ req[r1].noteId[1] \in NoteIds
            /\ Sufficient(r1) /\ Sufficient(r2) )
          => /\ Status(r1) \in {302, 404}
             /\ Status(r2) \in {302, 404}
             /\ Status(r1) = 302 \/ Status(r2) = 302
             /\ ~(Status(r1) = 302 /\ Status(r2) = 302)

\* C9: for every signed-in user, existing note and permission table, on the
\* same store the loader answers canDelete = TRUE if and only if the action
\* passes authorization for that user and note: a loader's answer agrees
\* with the action's check, and an action's outcome with the loader's check.
C9_LoaderAndActionAgree ==
    \A r \in DOMAIN req :
        /\ ( /\ req[r].kind = "loader"
             /\ Done(r)
             /\ Status(r) = 200
             /\ req[r].userId # Null )
           => (req[r].response[1].body.canDelete
                  <=> ActionPermission(req[r].userId[1], req[r].note[1]) # Null)
        /\ ( /\ req[r].kind = "action"
             /\ "findPermission" \in Range(req[r].ops) )
           => (~(Done(r) /\ Status(r) = 403)
                  <=> LoaderPermission(req[r].userId, req[r].note[1]).permission # Null)

\* the loader has answered canDelete = TRUE to an owner who holds the own
\* scope only
C9_Witness ==
    \E r \in DOMAIN req :
        /\ req[r].kind = "loader"
        /\ Done(r)
        /\ Status(r) = 200
        /\ req[r].response[1].body.canDelete
        /\ req[r].userId # Null
        /\ ~Holds(req[r].userId[1], Permission("note", "delete", "any"))

\* C10: any two requests that end with 403 carry the same status and the
\* same payload, whether the actor holds no note-delete scope or the own
\* scope on another user's note, whatever the note and its owner; the
\* message shown for a 403 does not depend on the route either.
C10_ForbiddenResponsesAreIdentical ==
    /\ \A r1, r2 \in DOMAIN req :
          (Done(r1) /\ Done(r2) /\ Status(r1) = 403 /\ Status(r2) = 403)
          => req[r1].response = req[r2].response
    /\ \A r \in DOMAIN req :
          (Done(r) /\ Status(r) = 403)
          => \A n1, n2 \in RouteNoteIds :
                ErrorBoundary(Status(r), [noteId |-> n1])
                   = ErrorBoundary(Status(r), [noteId |-> n2])

\* two requests have ended with 403 for different notes of different owners:
\* one by an actor holding no note-delete scope, one by an actor holding the
\* own scope on a note that is not theirs
C10_Witness ==
    \E r1, r2 \in DOMAIN req :
        /\ Done(r1) /\ Status(r1) = 403
        /\ Done(r2) /\ Status(r2) = 403
        /\ req[r1].note[1].id # req[r2].note[1].id
        /\ req[r1].note[1].ownerId # req[r2].note[1].ownerId
        /\ ~Holds(req[r1].userId[1], Permission("note", "delete", "own"))
        /\ Holds(req[r2].userId[1], Permission("note", "delete", "own"))
        /\ req[r2].note[1].ownerId # req[r2].userId[1]

====
